---------------------------- MODULE Spec2Model ----------------------------
(***************************************************************************)
(* Model of image_processing_project.py: the command line driver main,     *)
(* parse_cmdline, get_file_names, names_dict and image_analysis, together  *)
(* with the part of the file system and of the cv2 / numpy calls that the  *)
(* program's behaviour depends on.                                         *)
(*                                                                         *)
(* Strings are TLA+ strings (Len, \o and SubSeq apply to them).  An image  *)
(* is the flattened array of its 8-bit pixels; its shape is its length.    *)
(* A mean is kept exactly, as the pair (sum of the pixels, pixel count).   *)
(* A Python dict is the sequence of its (key, value) items in insertion    *)
(* order (Python 3.7 and later).  Python's 0-based index i is index i+1    *)
(* here.                                                                   *)
(*                                                                         *)
(* The file system lists a directory in an arbitrary order, which a new    *)
(* entry does not change for the entries already there.  An invocation of  *)
(* the program is a process of its own: it starts in the starting          *)
(* directory whatever an earlier invocation changed to.  An uncaught       *)
(* exception ends main; raised records it.                                 *)
(***************************************************************************)
EXTENDS Integers, Sequences, FiniteSets, TLC

VARIABLES
    dirs,                      \* the directories that exist (absolute paths)
    entries,                   \* directory -> its file names, in listing order
    corrupt,                   \* absolute paths of image files that do not decode
    fileContent,               \* absolute path -> content of a file np.savetxt wrote
    path,                      \* the -p / --path_data_file argument
    cwd,                       \* the process's current working directory
    pc,                        \* where main is
    ret,                       \* <<status>> once main returned, else << >>
    raised,                    \* the uncaught exception that ended main, else ""
    help_printed,              \* parser.print_help() was called
    wrote,                     \* "Wrote file: ..." was printed
    file_names,                \* image_analysis: file_names
    grouped_images,            \* image_analysis: grouped_images
    gi,                        \* position of the for loop in grouped_images.items()
    dapi, nkx2, foxa3,         \* image_analysis: the three arrays read
    normalized_nkx2,
    normalized_foxa3,
    f1_intensity,
    f2_intensity,
    f1_normalized_intensity,
    f2_normalized_intensity,
    imreads,                   \* the file names given to cv2.imread, in call order
    run,                       \* number of the current invocation of the program
    prev                       \* what the previous invocation left behind

fsVars   == <<dirs, entries, corrupt, fileContent>>
procVars == <<path, cwd, pc, ret, raised, help_printed, wrote, file_names,
              grouped_images, gi, imreads>>
imgVars  == <<dapi, nkx2, foxa3, normalized_nkx2, normalized_foxa3>>
resVars  == <<f1_intensity, f2_intensity, f1_normalized_intensity,
              f2_normalized_intensity>>
vars     == <<fsVars, procVars, imgVars, resVars, run, prev>>

---------------------------------------------------------------------------
(* Program constants *)

SUCCESS == 0
INVALID_DATA == 1
NO_SUCH_DIRECTORY == 2
num_channels == 4
KeyLen == 11
UCHAR_MAX == 255

OutSuffix == "_averages1" \o ".csv"
Header == "# " \o "channel1_intensity_" \o "," \o "channel2_intensity_"

---------------------------------------------------------------------------
(* Bounds of the model *)

MaxCorrupt == 1        \* image files of the data directory that do not decode
MaxRuns == 2           \* invocations of the program in one behaviour
MaxLen == 4            \* length of the list given to names_dict on its own
NPix == 3              \* pixels of the arrays given to cv2.divide on its own
MaxRef == 3            \* largest reference pixel given to cv2.divide on its own

---------------------------------------------------------------------------
(* Strings and paths *)

Min(a, b) == IF a < b THEN a ELSE b

\* Python's x[:n]
Take(x, n) == SubSeq(x, 1, Min(n, Len(x)))

StartsWith(s, p) == Len(s) >= Len(p) /\ SubSeq(s, 1, Len(p)) = p
EndsWith(s, p) == Len(s) >= Len(p) /\ SubSeq(s, Len(s) - Len(p) + 1, Len(s)) = p

InSeq(x, s) == \E i \in 1..Len(s) : s[i] = x

\* How the operating system reads a path given to chdir or open: relative
\* to the current directory unless it starts with the separator.
Join(dir, p) == IF StartsWith(p, "/") THEN p ELSE dir \o "/" \o p

StripSlash(p) == IF Len(p) > 1 /\ EndsWith(p, "/") THEN SubSeq(p, 1, Len(p) - 1) ELSE p

ResolveDir(dir, p) == StripSlash(Join(dir, p))

LastSlash(p) ==
    CHOOSE i \in 0..Len(p) :
        /\ i = 0 \/ SubSeq(p, i, i) = "/"
        /\ \A j \in (i + 1)..Len(p) : SubSeq(p, j, j) # "/"

DirName(p) == IF LastSlash(p) <= 1 THEN "/" ELSE SubSeq(p, 1, LastSlash(p) - 1)
BaseName(p) == SubSeq(p, LastSlash(p) + 1, Len(p))

---------------------------------------------------------------------------
(* The file system, glob and the cv2 / numpy calls *)

ChdirOk(dir, p) == ResolveDir(dir, p) \in dirs

\* A pattern that matches every name.
GlobAll(name) == TRUE

\* glob.glob("*.TIF") on a POSIX system: the name ends with .TIF, in this
\* case, and a name starting with a dot is never matched by a leading "*".
GlobMatch(name) == EndsWith(name, ".TIF") /\ ~StartsWith(name, ".")

\* The names glob returns for the directory: its matching entries, in the
\* directory's listing order.
Glob(dir) == SelectSeq(entries[dir], GlobMatch)

\* The image files of the fixture and their pixels.
SampleA == <<"sample0001_405.TIF", "sample0001_488.TIF", "sample0001_561.TIF",
             "sample0001_brightfield.TIF", "sample0001_640.TIF">>
SampleB == <<"sample0002_405.TIF", "sample0002_488.TIF", "sample0002_561.TIF",
             "sample0002_brightfield.TIF">>
OtherFiles == <<"sample0001_405.tif">>

Range(s) == {s[i] : i \in 1..Len(s)}

ImageNames == Range(SampleA) \cup Range(SampleB) \cup Range(OtherFiles)

Pixels(name) ==
    CASE name = SampleA[1] -> <<2, 3>>
      [] name = SampleA[2] -> <<5, 7>>
      [] name = SampleA[3] -> <<10, 9>>
      [] name = SampleA[4] -> <<1, 4>>
      [] name = SampleA[5] -> <<6, 0>>
      [] name = SampleB[1] -> <<1, 1>>
      [] name = SampleB[2] -> <<10, 20>>
      [] name = SampleB[3] -> <<30, 3>>
      [] name = SampleB[4] -> <<0, 2>>
      [] OTHER -> <<8, 8>>

\* What cv2.imread returns when the file cannot be read or decoded.
None == [ok |-> FALSE, px |-> << >>]
Array(px) == [ok |-> TRUE, px |-> px]

\* cv2.imread(p, 0) with the process in directory dir: the 8-bit grayscale
\* array of the file, or None when there is no such file, or it is not an
\* image, or it does not decode.
Imread(dir, p) ==
    LET full == Join(dir, p)
        d == DirName(full)
        b == BaseName(full)
    IN  IF /\ d \in dirs
           /\ InSeq(b, entries[d])
           /\ b \in ImageNames
           /\ full \notin corrupt
        THEN Array(Pixels(b))
        ELSE None

Saturate(v) == IF v > UCHAR_MAX THEN UCHAR_MAX ELSE IF v < 0 THEN 0 ELSE v

\* s / r rounded to the nearest integer, a tie to the even one (cvRound).
RoundDiv(s, r) ==
    LET q == s \div r
        m == s % r
    IN  IF 2 * m < r THEN q
        ELSE IF 2 * m > r THEN q + 1
        ELSE IF q % 2 = 0 THEN q ELSE q + 1

\* One pixel as the truncating quotient.
DivPixelFloor(s, r) == IF r = 0 THEN 0 ELSE Saturate(s \div r)

\* One pixel of cv2.divide on 8-bit arrays: saturate(round(s / r)), and 0
\* where the divisor is 0.
DivPixel(s, r) == IF r = 0 THEN 0 ELSE Saturate(RoundDiv(s, r))

\* cv2.divide treating an array that was not read as an array of zeros.
DivideSilent(a, b) ==
    IF a.ok /\ b.ok /\ Len(a.px) = Len(b.px)
    THEN Array([i \in 1..Len(a.px) |-> DivPixel(a.px[i], b.px[i])])
    ELSE Array(IF a.ok THEN [i \in 1..Len(a.px) |-> 0] ELSE <<0>>)

\* cv2.divide(a, b): raises (result None here) when an argument is None or
\* the shapes differ, else the array of the pixel-wise quotients.
Divide(a, b) ==
    IF a.ok /\ b.ok /\ Len(a.px) = Len(b.px)
    THEN Array([i \in 1..Len(a.px) |-> DivPixel(a.px[i], b.px[i])])
    ELSE None

RECURSIVE SumSeq(_)
SumSeq(s) == IF s = << >> THEN 0 ELSE s[1] + SumSeq(Tail(s))

\* np.mean of an array, exactly.
Mean(a) == [sum |-> SumSeq(a.px), n |-> Len(a.px)]

---------------------------------------------------------------------------
(* names_dict *)

\* A key one character short.
KeyOfShort(x) == Take(x, KeyLen - 1)

\* x[:11]
KeyOf(x) == Take(x, KeyLen)

KeyIndex(d, k) == IF \E i \in 1..Len(d) : d[i].k = k
                  THEN CHOOSE i \in 1..Len(d) : d[i].k = k
                  ELSE 0

\* dictionary.get(k, [])
DictGet(d, k) == IF KeyIndex(d, k) = 0 THEN << >> ELSE d[KeyIndex(d, k)].v

\* dictionary[k] = v: an existing key keeps its place, a new one goes last.
DictSet(d, k, v) ==
    IF KeyIndex(d, k) = 0
    THEN Append(d, [k |-> k, v |-> v])
    ELSE [d EXCEPT ![KeyIndex(d, k)] = [k |-> k, v |-> v]]

RECURSIVE NamesDictFrom(_, _)
NamesDictFrom(d, files) ==
    IF files = << >> THEN d
    ELSE LET x == Head(files)
             group == Append(DictGet(d, KeyOf(x)), x)
         IN  NamesDictFrom(DictSet(d, KeyOf(x), group), Tail(files))

RECURSIVE NamesDictPrepending(_)
NamesDictPrepending(files) ==
    IF files = << >> THEN << >>
    ELSE LET x == files[Len(files)]
             d == NamesDictPrepending(SubSeq(files, 1, Len(files) - 1))
         IN  DictSet(d, KeyOf(x), <<x>> \o DictGet(d, KeyOf(x)))

NamesDict(files_in_folder) == NamesDictFrom(<< >>, files_in_folder)

---------------------------------------------------------------------------
(* The state the program starts in *)

StartDir == "/w"
DataDir == "/w/d"
NestedDir == "/w/d/d"

\* The path argument: the data directory, absolute or relative to the
\* starting directory, with or without a trailing separator, and a path
\* that does not exist.
PathArgs == {"/w/d/", "/w/d", "d/", "d", "/w/x/"}

FilePool == SampleA \o SampleB \o OtherFiles

Reverse(s) == [i \in 1..Len(s) |-> s[Len(s) + 1 - i]]

\* Orders in which the file system may list the names of the pool: a
\* directory lists the names it holds in one of these orders.
FsOrders ==
    { FilePool,
      <<SampleA[3], SampleB[4], SampleA[5], SampleA[1], SampleB[2],
        SampleA[4], OtherFiles[1], SampleB[1], SampleA[2], SampleB[3]>> }

Restrict(order, present) ==
    LET Here(x) == x \in present IN SelectSeq(order, Here)

EmptyFiles == [x \in {} |-> 0]

ProcessStart ==
    /\ cwd = StartDir
    /\ pc = "parse"
    /\ ret = << >>
    /\ raised = ""
    /\ help_printed = FALSE
    /\ wrote = FALSE
    /\ file_names = << >>
    /\ grouped_images = << >>
    /\ gi = 0
    /\ imreads = << >>
    /\ dapi = None /\ nkx2 = None /\ foxa3 = None
    /\ normalized_nkx2 = None /\ normalized_foxa3 = None
    /\ f1_intensity = << >> /\ f2_intensity = << >>
    /\ f1_normalized_intensity = << >> /\ f2_normalized_intensity = << >>

NoPrev == [ret |-> << >>, raised |-> "", files |-> EmptyFiles,
           file_names |-> << >>, grouped_images |-> << >>]

FileSystem(present, order, nested, bad) ==
    /\ dirs = {"/", StartDir, DataDir} \cup (IF nested THEN {NestedDir} ELSE {})
    /\ entries = [d \in dirs |->
                    IF d = DataDir
                    THEN Restrict(order, present \cup Range(OtherFiles))
                    ELSE IF d = NestedDir THEN <<SampleB[1]>>
                    ELSE << >>]
    /\ corrupt = {DataDir \o "/" \o n : n \in bad}
    /\ fileContent = EmptyFiles

Init ==
    /\ \E present \in SUBSET (Range(SampleA) \cup Range(SampleB)), order \in FsOrders, nested \in BOOLEAN :
         \E bad \in SUBSET present :
            /\ Cardinality(bad) <= MaxCorrupt
            /\ FileSystem(present, order, nested, bad)
    /\ path \in PathArgs
    /\ ProcessStart
    /\ run = 1
    /\ prev = NoPrev

---------------------------------------------------------------------------
(* parse_cmdline and main's test of its return code *)

\* parse_cmdline returning SUCCESS whether or not os.chdir raised.
ParseStatusIgnoringError(dir, p) == SUCCESS

\* The return code of parse_cmdline: os.chdir(args.path_data_file) raises
\* OSError when the path is no directory.
ParseStatus(dir, p) == IF ChdirOk(dir, p) THEN SUCCESS ELSE NO_SUCH_DIRECTORY

ParseCmdline ==
    /\ pc = "parse"
    /\ cwd' = IF ChdirOk(cwd, path) THEN ResolveDir(cwd, path) ELSE cwd
    /\ IF ParseStatus(cwd, path) # SUCCESS
       THEN /\ help_printed' = ~ChdirOk(cwd, path)
            /\ ret' = <<ParseStatus(cwd, path)>>
            /\ pc' = "done"
       ELSE /\ help_printed' = ~ChdirOk(cwd, path)
            /\ pc' = "list"
            /\ UNCHANGED ret
    /\ UNCHANGED <<fsVars, path, raised, wrote, file_names, grouped_images, gi,
                   imreads, imgVars, resVars, run, prev>>

---------------------------------------------------------------------------
(* image_analysis *)

\* get_file_names(folder_path): os.chdir, then glob in the new directory.
GetFileNames ==
    /\ pc = "list"
    /\ IF ChdirOk(cwd, path)
       THEN /\ cwd' = ResolveDir(cwd, path)
            /\ file_names' = Glob(ResolveDir(cwd, path))
            /\ pc' = "group"
            /\ UNCHANGED raised
       ELSE /\ raised' = "FileNotFoundError"
            /\ pc' = "done"
            /\ UNCHANGED <<cwd, file_names>>
    /\ UNCHANGED <<fsVars, path, ret, help_printed, wrote, grouped_images, gi,
                   imreads, imgVars, resVars, run, prev>>

\* grouped_images = names_dict(file_names), and the four empty lists.
GroupNames ==
    /\ pc = "group"
    /\ grouped_images' = NamesDict(file_names)
    /\ gi' = 1
    /\ f1_intensity' = << >> /\ f2_intensity' = << >>
    /\ f1_normalized_intensity' = << >> /\ f2_normalized_intensity' = << >>
    /\ pc' = "loop"
    /\ UNCHANGED <<fsVars, path, cwd, ret, raised, help_printed, wrote,
                   file_names, imreads, imgVars, run, prev>>

\* A test that also takes a group with more than num_channels names.
IsCompleteOrMore(names) == Len(names) >= num_channels

\* len(names) == num_channels
IsComplete(names) == Len(names) = num_channels

\* The names given to cv2.imread for a group: folder_path + names[1], [2], [3].
ChannelPaths(folder_path, names) ==
    <<folder_path \o names[2], folder_path \o names[3], folder_path \o names[4]>>

\* One iteration of the loop up to the three cv2.imread calls; a group that
\* is not complete ends the iteration.
LoadGroup ==
    /\ pc = "loop"
    /\ gi <= Len(grouped_images)
    /\ LET names == grouped_images[gi].v IN
         IF IsComplete(names)
         THEN /\ dapi' = Imread(cwd, ChannelPaths(path, names)[1])
              /\ nkx2' = Imread(cwd, ChannelPaths(path, names)[2])
              /\ foxa3' = Imread(cwd, ChannelPaths(path, names)[3])
              /\ imreads' = imreads \o ChannelPaths(path, names)
              /\ pc' = "divide"
              /\ UNCHANGED gi
         ELSE /\ gi' = gi + 1
              /\ UNCHANGED <<dapi, nkx2, foxa3, imreads, pc>>
    /\ UNCHANGED <<fsVars, path, cwd, ret, raised, help_printed, wrote, file_names,
                   grouped_images, normalized_nkx2, normalized_foxa3, resVars,
                   run, prev>>

\* The four appends, with the last one left out.
AppendThree(lists, m1, m2, m3, m4) ==
    <<Append(lists[1], m1), Append(lists[2], m2), Append(lists[3], m3), lists[4]>>

\* The four appends of one iteration.
AppendFour(lists, m1, m2, m3, m4) ==
    <<Append(lists[1], m1), Append(lists[2], m2), Append(lists[3], m3),
      Append(lists[4], m4)>>

\* The rest of the iteration: the two cv2.divide calls, either of which may
\* raise, and the four appends.
NormalizeGroup ==
    /\ pc = "divide"
    /\ LET n1 == Divide(nkx2, dapi)
           n2 == Divide(foxa3, dapi)
           lists == AppendFour(<<f1_intensity, f2_intensity,
                                 f1_normalized_intensity, f2_normalized_intensity>>,
                               Mean(nkx2), Mean(foxa3), Mean(n1), Mean(n2))
       IN  IF ~n1.ok
           THEN /\ raised' = "cv2.error"
                /\ pc' = "done"
                /\ UNCHANGED <<normalized_nkx2, normalized_foxa3, resVars, gi>>
           ELSE IF ~n2.ok
           THEN /\ normalized_nkx2' = n1
                /\ raised' = "cv2.error"
                /\ pc' = "done"
                /\ UNCHANGED <<normalized_foxa3, resVars, gi>>
           ELSE /\ normalized_nkx2' = n1
                /\ normalized_foxa3' = n2
                /\ f1_intensity' = lists[1]
                /\ f2_intensity' = lists[2]
                /\ f1_normalized_intensity' = lists[3]
                /\ f2_normalized_intensity' = lists[4]
                /\ gi' = gi + 1
                /\ pc' = "loop"
                /\ UNCHANGED raised
    /\ UNCHANGED <<fsVars, path, cwd, ret, help_printed, wrote, file_names,
                   grouped_images, imreads, dapi, nkx2, foxa3, run, prev>>

\* The loop is over: image_analysis returns the four lists.
AnalysisReturn ==
    /\ pc = "loop"
    /\ gi > Len(grouped_images)
    /\ pc' = "export"
    /\ UNCHANGED <<fsVars, path, cwd, ret, raised, help_printed, wrote, file_names,
                   grouped_images, gi, imreads, imgVars, resVars, run, prev>>

---------------------------------------------------------------------------
(* The export in main *)

\* out_fname
OutName(p) == p \o OutSuffix

\* What np.savetxt writes for np.c_[c1, c2]: the header line, then one row
\* for each position of the two lists.
SaveTxtContent(c1, c2) ==
    [header |-> Header, rows |-> [i \in 1..Len(c1) |-> <<c1[i], c2[i]>>]]

InsertAt(s, i, x) == SubSeq(s, 1, i - 1) \o <<x>> \o SubSeq(s, i, Len(s))

\* np.savetxt creates or overwrites the file and main returns SUCCESS; the
\* open raises when the file's directory does not exist.  A new name enters
\* the directory's listing first or last.
Export ==
    /\ pc = "export"
    /\ LET full == Join(cwd, OutName(path))
           d == DirName(full)
           b == BaseName(full)
       IN  IF d \in dirs /\ full \notin dirs
           THEN /\ fileContent' = (full :> SaveTxtContent(f1_normalized_intensity,
                                                           f2_normalized_intensity))
                                  @@ fileContent
                /\ IF InSeq(b, entries[d])
                   THEN UNCHANGED entries
                   ELSE \E i \in {1, Len(entries[d]) + 1} :
                            entries' = [entries EXCEPT ![d] = InsertAt(@, i, b)]
                /\ wrote' = TRUE
                /\ ret' = <<SUCCESS>>
                /\ UNCHANGED raised
           ELSE /\ raised' = "FileNotFoundError"
                /\ UNCHANGED <<fileContent, entries, wrote, ret>>
    /\ pc' = "done"
    /\ UNCHANGED <<dirs, corrupt, path, cwd, help_printed, file_names,
                   grouped_images, gi, imreads, imgVars, resVars, run, prev>>

---------------------------------------------------------------------------
(* The program is started again, from the same directory with the same     *)
(* argument, on the file system the previous invocation left.              *)

Rerun ==
    /\ pc = "done"
    /\ run < MaxRuns
    /\ run' = run + 1
    /\ prev' = [ret |-> ret, raised |-> raised, files |-> fileContent,
                file_names |-> file_names, grouped_images |-> grouped_images]
    /\ cwd' = StartDir
    /\ pc' = "parse"
    /\ ret' = << >>
    /\ raised' = ""
    /\ help_printed' = FALSE
    /\ wrote' = FALSE
    /\ file_names' = << >>
    /\ grouped_images' = << >>
    /\ gi' = 0
    /\ imreads' = << >>
    /\ dapi' = None /\ nkx2' = None /\ foxa3' = None
    /\ normalized_nkx2' = None /\ normalized_foxa3' = None
    /\ f1_intensity' = << >> /\ f2_intensity' = << >>
    /\ f1_normalized_intensity' = << >> /\ f2_normalized_intensity' = << >>
    /\ UNCHANGED <<fsVars, path>>

Next ==
    \/ ParseCmdline
    \/ GetFileNames
    \/ GroupNames
    \/ LoadGroup
    \/ NormalizeGroup
    \/ AnalysisReturn
    \/ Export
    \/ Rerun

Spec == Init /\ [][Next]_vars

---------------------------------------------------------------------------
(* names_dict on its own: any list of names, repeated names included *)

GroupPool == {"sample0001_405.TIF", "sample0001_488.TIF", "sample0002_405.TIF",
              "sample0001_", "sample0001", "a.TIF"}

SeqsUpTo(S, n) == UNION {[1..k -> S] : k \in 0..n}

InitGroup ==
    /\ FileSystem({}, FilePool, FALSE, {})
    /\ path = "/w/d/"
    /\ cwd = DataDir
    /\ pc = "group"
    /\ ret = << >>
    /\ raised = ""
    /\ help_printed = FALSE
    /\ wrote = FALSE
    /\ file_names \in SeqsUpTo(GroupPool, MaxLen)
    /\ grouped_images = << >>
    /\ gi = 0
    /\ imreads = << >>
    /\ dapi = None /\ nkx2 = None /\ foxa3 = None
    /\ normalized_nkx2 = None /\ normalized_foxa3 = None
    /\ f1_intensity = << >> /\ f2_intensity = << >>
    /\ f1_normalized_intensity = << >> /\ f2_normalized_intensity = << >>
    /\ run = 1
    /\ prev = NoPrev

NextGroup == GroupNames

SpecGroup == InitGroup /\ [][NextGroup]_vars

---------------------------------------------------------------------------
(* The normalization on its own: any reference and signal arrays of NPix   *)
(* pixels, read for a complete group                                       *)

SigVals == {5, 7, 10, 20, 30}

InitNorm ==
    /\ FileSystem(Range(SubSeq(SampleA, 1, 4)), FilePool, FALSE, {})
    /\ path = "/w/d/"
    /\ cwd = DataDir
    /\ pc = "divide"
    /\ ret = << >>
    /\ raised = ""
    /\ help_printed = FALSE
    /\ wrote = FALSE
    /\ file_names = SubSeq(SampleA, 1, 4)
    /\ grouped_images = NamesDict(file_names)
    /\ gi = 1
    /\ imreads = ChannelPaths(path, file_names)
    /\ \E r \in [1..NPix -> 0..MaxRef], s \in [1..NPix -> SigVals] :
          /\ dapi = Array(r)
          /\ nkx2 = Array(s)
          /\ foxa3 = Array(Reverse(s))
    /\ normalized_nkx2 = None /\ normalized_foxa3 = None
    /\ f1_intensity = << >> /\ f2_intensity = << >>
    /\ f1_normalized_intensity = << >> /\ f2_normalized_intensity = << >>
    /\ run = 1
    /\ prev = NoPrev

NextNorm == NormalizeGroup

SpecNorm == InitNorm /\ [][NextNorm]_vars

---------------------------------------------------------------------------
(* Properties *)

\* The sample key of a name as the specification words it: its first 11
\* characters, or the whole name when it is shorter.
SampleKey(x) == IF Len(x) < 11 THEN x ELSE SubSeq(x, 1, 11)

Count(x, s) == Cardinality({i \in 1..Len(s) : s[i] = x})

\* The names of a list that have the sample key k, in the list's order.
WithKey(files, k) == LET Same(x) == SampleKey(x) = k IN SelectSeq(files, Same)

\* The position at which the sample key k first occurs in a list.
FirstAt(files, k) ==
    CHOOSE i \in 1..Len(files) :
        /\ SampleKey(files[i]) = k
        /\ \A j \in 1..(i - 1) : SampleKey(files[j]) # k

Grouped == pc \in {"loop", "divide", "export"} \/ (pc = "done" /\ gi > 0)

\* C1: names_dict partitions its input.  No two groups have the same key,
\* the key of a group is the sample key (first 11 characters, or the whole
\* name when shorter) of each of its members, and every name of the input
\* is in exactly one group's list, as often as it occurs in the input.
C1_GroupsPartitionInput ==
    Grouped =>
        /\ \A i, j \in 1..Len(grouped_images) :
              grouped_images[i].k = grouped_images[j].k => i = j
        /\ \A i \in 1..Len(grouped_images) :
              /\ grouped_images[i].v # << >>
              /\ \A m \in 1..Len(grouped_images[i].v) :
                    SampleKey(grouped_images[i].v[m]) = grouped_images[i].k
        /\ \A x \in Range(file_names) :
              /\ Cardinality({i \in 1..Len(grouped_images) :
                                 InSeq(x, grouped_images[i].v)}) = 1
              /\ \A i \in 1..Len(grouped_images) :
                    InSeq(x, grouped_images[i].v) =>
                        /\ grouped_images[i].k = SampleKey(x)
                        /\ Count(x, grouped_images[i].v) = Count(x, file_names)

\* names_dict has grouped a list holding a name shorter than 11 characters,
\* a name of exactly 11, and two longer names that share their first 11.
C1_Witness ==
    /\ pc = "loop"
    /\ InSeq("a.TIF", file_names)
    /\ InSeq("sample0001_", file_names)
    /\ InSeq("sample0001_405.TIF", file_names)
    /\ InSeq("sample0001_488.TIF", file_names)
    /\ Len(grouped_images) = 2

\* C9: names_dict keeps first-seen order.  The keys of the mapping iterate
\* in the order in which each first occurs in the listing, the members of
\* a group are the listed names with its key in listing order, and the
\* three images image_analysis reads for a complete group are the 2nd, 3rd
\* and 4th listed file with that prefix, as reference, signal A, signal B.
C9_FirstSeenOrder ==
    Grouped =>
        /\ \A i, j \in 1..Len(grouped_images) :
              i < j => FirstAt(file_names, grouped_images[i].k)
                         < FirstAt(file_names, grouped_images[j].k)
        /\ \A i \in 1..Len(grouped_images) :
              grouped_images[i].v = WithKey(file_names, grouped_images[i].k)
        /\ pc = "divide" =>
              LET listed == WithKey(file_names, grouped_images[gi].k) IN
                 /\ Len(imreads) >= 3
                 /\ SubSeq(imreads, Len(imreads) - 2, Len(imreads))
                       = <<path \o listed[2], path \o listed[3], path \o listed[4]>>
                 /\ dapi = Imread(cwd, path \o listed[2])
                 /\ nkx2 = Imread(cwd, path \o listed[3])
                 /\ foxa3 = Imread(cwd, path \o listed[4])

\* The three images of the second group have been read, from a listing in
\* which the files of the two samples are interleaved.
C9_Witness ==
    /\ pc = "divide"
    /\ gi = 2
    /\ Len(file_names) = 8
    /\ SampleKey(file_names[1]) # SampleKey(file_names[2])
    /\ dapi.ok /\ nkx2.ok /\ foxa3.ok

\* The number of groups of exactly 4 members among the first n groups.
CompleteAmong(n) ==
    Cardinality({j \in 1..n : j <= Len(grouped_images)
                               /\ Len(grouped_images[j].v) = 4})

ResultLists == <<f1_intensity, f2_intensity, f1_normalized_intensity,
                 f2_normalized_intensity>>

\* C2: a group contributes entries if and only if it has exactly 4 members.
\* Between iterations every result sequence has as many entries as there
\* are groups of size 4 among the groups iterated so far, and once all the
\* groups have been iterated it has as many as there are groups of size 4.
C2_OnlyGroupsOfFour ==
    /\ pc \in {"loop", "divide", "export"} =>
          \A l \in 1..4 : Len(ResultLists[l]) = CompleteAmong(gi - 1)
    /\ pc = "export" =>
          /\ gi = Len(grouped_images) + 1
          /\ \A l \in 1..4 :
                Len(ResultLists[l]) = CompleteAmong(Len(grouped_images))

\* All groups have been iterated: the listing held a group of 5 and a group
\* of 4, and one entry was appended to the results.
C2_Witness ==
    /\ pc = "export"
    /\ Len(grouped_images) = 2
    /\ Len(grouped_images[1].v) = 5
    /\ Len(grouped_images[2].v) = 4
    /\ Len(f1_normalized_intensity) = 1

\* The j-th group of exactly 4 members, in iteration order.
RECURSIVE CompleteGroups(_)
CompleteGroups(d) ==
    IF d = << >> THEN << >>
    ELSE (IF Len(Head(d).v) = 4 THEN <<Head(d).v>> ELSE << >>)
         \o CompleteGroups(Tail(d))

\* C8: the four result sequences have equal length between iterations and
\* on return, and position i of each belongs to the i-th analyzed group:
\* the raw means of its signal A and B images and the means of the two
\* images normalized by its reference image.
C8_ParallelSequences ==
    /\ Len(f1_intensity) = Len(f2_intensity)
    /\ Len(f2_intensity) = Len(f1_normalized_intensity)
    /\ Len(f1_normalized_intensity) = Len(f2_normalized_intensity)
    /\ pc \in {"loop", "divide", "export"} =>
          \A i \in 1..Len(f1_intensity) :
             LET g == CompleteGroups(grouped_images)[i]
                 ref == Imread(cwd, path \o g[2])
                 a == Imread(cwd, path \o g[3])
                 b == Imread(cwd, path \o g[4])
             IN  /\ f1_intensity[i] = Mean(a)
                 /\ f2_intensity[i] = Mean(b)
                 /\ f1_normalized_intensity[i] = Mean(Divide(a, ref))
                 /\ f2_normalized_intensity[i] = Mean(Divide(b, ref))

\* image_analysis returns after two groups were analyzed.
C8_Witness ==
    /\ pc = "export"
    /\ Len(f1_intensity) = 2
    /\ Len(f2_normalized_intensity) = 2
    /\ f1_normalized_intensity[1] # f1_normalized_intensity[2]

\* The supplied path names an existing directory, seen from the directory
\* the program is started in.
PathIsDirectory == ResolveDir(StartDir, path) \in dirs

\* C3: when the supplied path does not exist, main returns 2, prints the
\* usage help, and never reaches image_analysis or the export: nothing is
\* listed, no image is read and no file is written.
C3_NoSuchDirectory ==
    ~PathIsDirectory =>
        /\ pc \in {"parse", "done"}
        /\ file_names = << >>
        /\ imreads = << >>
        /\ ~wrote
        /\ fileContent = EmptyFiles
        /\ \A d \in dirs : \A i \in 1..Len(entries[d]) :
              ~EndsWith(entries[d][i], ".csv")
        /\ pc = "done" =>
              /\ ret = <<2>>
              /\ help_printed
              /\ raised = ""

\* main has returned 2 for a path that does not exist.
C3_Witness ==
    /\ ~PathIsDirectory
    /\ pc = "done"
    /\ ret = <<2>>
    /\ help_printed
    /\ Len(entries[DataDir]) > 4

\* The output file of the current invocation, as the program opens it.
OutputPath == Join(cwd, path \o "_averages1.csv")

\* C4: for every supplied path that names an existing directory, absolute
\* or relative, with or without a trailing separator, main runs the full
\* pipeline on that directory (the listing and the image loads resolve to
\* it and its listed files) and returns 0 with the output file written.
C4_FullPipelineForEveryDirectory ==
    (pc = "done" /\ PathIsDirectory) =>
        /\ raised = ""
        /\ ret = <<0>>
        /\ wrote
        /\ OutputPath \in DOMAIN fileContent
        /\ cwd = ResolveDir(StartDir, path)
        /\ file_names = Glob(ResolveDir(StartDir, path))
        /\ \A i \in 1..Len(imreads) :
              /\ DirName(Join(cwd, imreads[i])) = ResolveDir(StartDir, path)
              /\ InSeq(BaseName(Join(cwd, imreads[i])), file_names)

\* Group j is complete and one of its three channel images does not decode.
Undecodable(j) ==
    /\ Len(grouped_images[j].v) = 4
    /\ \E c \in 2..4 : ~Imread(cwd, path \o grouped_images[j].v[c]).ok

ExpectedRows(d) ==
    [i \in 1..Len(CompleteGroups(d)) |->
        LET g == CompleteGroups(d)[i]
            ref == Imread(cwd, path \o g[2])
        IN  <<Mean(Divide(Imread(cwd, path \o g[3]), ref)),
              Mean(Divide(Imread(cwd, path \o g[4]), ref))>>]

\* C6: the file main writes is <input-path>_averages1.csv: the header line,
\* then one row per group of 4 in iteration order, the group's two
\* normalized means.  When the directory holds no group of 4 the program
\* still returns 0 and the file holds the header alone.
C6_OutputFile ==
    /\ (pc = "done" /\ ret = <<0>>) =>
          /\ OutputPath \in DOMAIN fileContent
          /\ fileContent[OutputPath].header
                = "# channel1_intensity_,channel2_intensity_"
          /\ fileContent[OutputPath].rows = ExpectedRows(grouped_images)
    /\ (/\ pc = "done"
        /\ PathIsDirectory
        /\ CompleteGroups(NamesDict(Glob(ResolveDir(StartDir, path)))) = << >>) =>
          /\ ret = <<0>>
          /\ OutputPath \in DOMAIN fileContent
          /\ fileContent[OutputPath].rows = << >>

\* C7: a second run on the unchanged folder lists and groups what the first
\* run did, ends as the first did, and leaves the same output file content:
\* the file the first run wrote changes nothing for the second.
C7_SecondRunSame ==
    run >= 2 =>
        /\ pc \in {"group", "loop", "divide", "export"} =>
              file_names = prev.file_names
        /\ pc \in {"loop", "divide", "export"} =>
              grouped_images = prev.grouped_images
        /\ pc = "done" =>
              /\ file_names = prev.file_names
              /\ grouped_images = prev.grouped_images
              /\ ret = prev.ret
              /\ raised = prev.raised
              /\ fileContent = prev.files

\* The second run has returned 0 after writing, as the first did, a row
\* into the output file that lies in the listed folder itself.
C7_Witness ==
    /\ run = 2
    /\ pc = "done"
    /\ ret = <<0>>
    /\ path = "/w/d/"
    /\ InSeq("_averages1.csv", entries[DataDir])
    /\ Len(fileContent["/w/d/_averages1.csv"].rows) >= 1

\* The normalization of the current group has just been done.
Normalized == pc = "loop" /\ gi >= 2 /\ normalized_nkx2.ok /\ normalized_foxa3.ok
                 /\ Len(grouped_images[gi - 1].v) = 4

Abs(x) == IF x < 0 THEN -x ELSE x

\* C10 as stated: the normalized array has the shape of its inputs, each of
\* its pixels with a non-zero reference pixel is the integer quotient
\* signal div reference, and with a reference uniformly 1 the normalized
\* mean is the raw mean.
C10_IntegerQuotient ==
    Normalized =>
        /\ Len(normalized_nkx2.px) = Len(nkx2.px)
        /\ Len(normalized_nkx2.px) = Len(dapi.px)
        /\ Len(normalized_foxa3.px) = Len(foxa3.px)
        /\ \A i \in 1..Len(dapi.px) :
              dapi.px[i] # 0 =>
                 /\ normalized_nkx2.px[i] = nkx2.px[i] \div dapi.px[i]
                 /\ normalized_foxa3.px[i] = foxa3.px[i] \div dapi.px[i]
        /\ (\A i \in 1..Len(dapi.px) : dapi.px[i] = 1) =>
              /\ f1_normalized_intensity[Len(f1_normalized_intensity)]
                    = f1_intensity[Len(f1_intensity)]
              /\ f2_normalized_intensity[Len(f2_normalized_intensity)]
                    = f2_intensity[Len(f2_intensity)]

\* C10 amended: the normalized array has the shape of its inputs, each of
\* its pixels with a non-zero reference pixel is the quotient signal /
\* reference rounded to a nearest integer (not truncated), and with a
\* reference uniformly 1 the normalized mean is the raw mean (20 for the
\* signal 10, 20, 30).
C10_RoundedQuotient ==
    Normalized =>
        /\ Len(normalized_nkx2.px) = Len(nkx2.px)
        /\ Len(normalized_nkx2.px) = Len(dapi.px)
        /\ Len(normalized_foxa3.px) = Len(foxa3.px)
        /\ \A i \in 1..Len(dapi.px) :
              dapi.px[i] # 0 =>
                 /\ 2 * Abs(normalized_nkx2.px[i] * dapi.px[i] - nkx2.px[i])
                       <= dapi.px[i]
                 /\ 2 * Abs(normalized_foxa3.px[i] * dapi.px[i] - foxa3.px[i])
                       <= dapi.px[i]
        /\ (\A i \in 1..Len(dapi.px) : dapi.px[i] = 1) =>
              /\ f1_normalized_intensity[Len(f1_normalized_intensity)]
                    = f1_intensity[Len(f1_intensity)]
              /\ f2_normalized_intensity[Len(f2_normalized_intensity)]
                    = f2_intensity[Len(f2_intensity)]
              /\ nkx2.px = <<10, 20, 30>> =>
                    f1_normalized_intensity[Len(f1_normalized_intensity)].sum
                       = 20 * f1_normalized_intensity[Len(f1_normalized_intensity)].n

\* The signal 10, 20, 30 has been normalized by a reference uniformly 1.
C10_Witness ==
    /\ Normalized
    /\ dapi.px = <<1, 1, 1>>
    /\ nkx2.px = <<10, 20, 30>>
    /\ f1_normalized_intensity = <<[sum |-> 60, n |-> 3]>>
    /\ f1_intensity = <<[sum |-> 60, n |-> 3]>>

===========================================================================
